---- MODULE Spec2Model ----
(***************************************************************************)
(* Model of script.js: the seat-selection widget of a movie ticketing      *)
(* demo.  The state is the script's globals (showtimes, currentShowtimeId, *)
(* selectedSeats) and the DOM it reads back from (the two <select>s, the   *)
(* seating grid's seat elements with their classes, the summary texts and  *)
(* the book button), plus the console's latest line: the booking that was  *)
(* submitted last.                                                         *)
(* Each action is one event listener run to completion.                    *)
(*                                                                         *)
(* Money is held in cents: 15.00 is 1500.  The text written by toFixed(2)  *)
(* is the record [whole, frac] of the digits before and after the point.   *)
(***************************************************************************)
EXTENDS Integers, Sequences, FiniteSets, TLC

VARIABLES showtimes, currentShowtimeId, selectedSeats,
          movieSelect, showtimeSelect, seatingGrid,
          seatCount, totalPrice, bookBtn, console, event

vars == <<showtimes, currentShowtimeId, selectedSeats, movieSelect,
          showtimeSelect, seatingGrid, seatCount, totalPrice, bookBtn,
          console, event>>

(* ----------------------------- bounds ---------------------------------- *)

\* The user clicks only the first MaxClickSeat seat elements of the grid.
MaxClickSeat == 5
\* A click that would select more than MaxSelected seats is not explored.
MaxSelected == 2

(* ------------------------------ data ----------------------------------- *)

movies ==
    << [id |-> 1, title |-> "Dune: Part Two", price |-> 1500],
       [id |-> 2, title |-> "Oppenheimer",    price |-> 1250],
       [id |-> 3, title |-> "Barbie",         price |-> 1000] >>

\* Object.values(showtimes) enumerates the keys in insertion order.
showtimeKeys == << "1_10AM", "1_1PM", "2_11AM", "3_7PM" >>

showtimesData ==
    ("1_10AM" :> [id |-> "1_10AM", time |-> "10:00 AM", movieId |-> 1,
                  occupied |-> <<1, 2, 9, 10, 11, 25, 26>>]) @@
    ("1_1PM"  :> [id |-> "1_1PM",  time |-> "01:00 PM", movieId |-> 1,
                  occupied |-> <<5, 6, 15, 16, 30>>]) @@
    ("2_11AM" :> [id |-> "2_11AM", time |-> "11:00 AM", movieId |-> 2,
                  occupied |-> <<3, 4, 18, 19, 20>>]) @@
    ("3_7PM"  :> [id |-> "3_7PM",  time |-> "07:00 PM", movieId |-> 3,
                  occupied |-> <<7, 8, 22, 23, 24>>])

SEAT_LAYOUT == [rows |-> <<"A", "B", "C", "D">>, seatsPerRow |-> 8]

\* JavaScript null, and the value of a <select> without options.
Null == "null"
EmptyValue == ""

(* ----------------------------- helpers --------------------------------- *)

\* Array.prototype.includes
includes(arr, x) == \E k \in DOMAIN arr : arr[k] = x

\* Array.prototype.filter(index => index !== x)
RECURSIVE filterOut(_, _)
filterOut(arr, x) ==
    IF arr = <<>> THEN <<>>
    ELSE IF Head(arr) # x THEN <<Head(arr)>> \o filterOut(Tail(arr), x)
         ELSE filterOut(Tail(arr), x)

\* Number.prototype.toFixed(2) on an amount of cents: the digits around the point.
toFixed2(cents) == [whole |-> cents \div 100, frac |-> cents % 100]

\* parseInt of such a text: the digits after the point are dropped.
parseIntOfText(text) == text.whole * 100

\* parseFloat of such a text, back in cents.
parseFloat(text) == text.whole * 100 + text.frac

\* Object.values(showtimes) without the filter on movieId.
RECURSIVE filterShowtimesUnfiltered(_, _, _)
filterShowtimesUnfiltered(sts, keys, movieId) ==
    IF keys = <<>> THEN <<>>
    ELSE <<sts[Head(keys)]>> \o filterShowtimesUnfiltered(sts, Tail(keys), movieId)

\* Object.values(showtimes).filter(st => st.movieId === parseInt(movieId))
RECURSIVE filterShowtimes(_, _, _)
filterShowtimes(sts, keys, movieId) ==
    IF keys = <<>> THEN <<>>
    ELSE IF sts[Head(keys)].movieId = movieId
         THEN <<sts[Head(keys)]>> \o filterShowtimes(sts, Tail(keys), movieId)
         ELSE filterShowtimes(sts, Tail(keys), movieId)

availableShowtimes(sts, movieId) == filterShowtimes(sts, showtimeKeys, movieId)

\* showtimeSelect after its innerHTML is replaced: the options, the first one selected.
showtimeOptions(avail) ==
    [options |-> [k \in DOMAIN avail |-> avail[k].id],
     value   |-> IF Len(avail) > 0 THEN avail[1].id ELSE EmptyValue]

\* updateShowtimeOptions taking the last available showtime instead of the first.
firstShowtimeLast(avail) == IF Len(avail) > 0 THEN avail[Len(avail)].id ELSE Null

\* The showtime updateShowtimeOptions makes current.
firstShowtime(avail) == IF Len(avail) > 0 THEN avail[1].id ELSE Null

(* ------------------------------ render --------------------------------- *)

\* One seat <div>: its data-seat-index, its title and its class list.
seatElement(rowLetter, i, seatIndex, occupied, selected) ==
    [seatIndex |-> seatIndex,
     title     |-> <<rowLetter, i>>,
     classes   |-> {"seat"}
                   \cup (IF includes(occupied, seatIndex) THEN {"occupied"} ELSE {})
                   \cup (IF includes(selected, seatIndex) THEN {"selected"} ELSE {})]

\* The inner for loop: seats i..seatsPerRow of one row; seatIndex is the
\* counter's value before the seat is made.
RECURSIVE renderRow(_, _, _, _, _)
renderRow(rowLetter, i, seatIndex, occupied, selected) ==
    IF i > SEAT_LAYOUT.seatsPerRow THEN <<>>
    ELSE <<seatElement(rowLetter, i, seatIndex + 1, occupied, selected)>>
         \o renderRow(rowLetter, i + 1, seatIndex + 1, occupied, selected)

\* The forEach over the rows with the counter declared inside the callback:
\* every row starts again from 0.
RECURSIVE renderRowsCounterPerRow(_, _, _, _)
renderRowsCounterPerRow(r, seatIndex, occupied, selected) ==
    IF r > Len(SEAT_LAYOUT.rows) THEN <<>>
    ELSE renderRow(SEAT_LAYOUT.rows[r], 1, 0, occupied, selected)
         \o renderRowsCounterPerRow(r + 1, 0, occupied, selected)

\* The forEach over the rows, the counter carried from row to row.
RECURSIVE renderRows(_, _, _, _)
renderRows(r, seatIndex, occupied, selected) ==
    IF r > Len(SEAT_LAYOUT.rows) THEN <<>>
    ELSE LET row == renderRow(SEAT_LAYOUT.rows[r], 1, seatIndex, occupied, selected)
         IN  row \o renderRows(r + 1, seatIndex + Len(row), occupied, selected)

\* renderSeatingGrid: the seat elements in document order; none when there
\* is no current showtime (the grid then holds the "No showtimes" paragraph).
renderSeatingGrid(sts, cur, selected) ==
    IF cur \in {Null, EmptyValue} THEN <<>>
    ELSE renderRows(1, 0, sts[cur].occupied, selected)

\* updateSummary reading the price of the first movie whatever is selected.
updateSummaryFirstMovie(selected, movieId) ==
    LET count == Len(selected)
        total == count * movies[1].price
    IN  [seatCount |-> count, totalPrice |-> toFixed2(total), disabled |-> (count = 0)]

\* updateSummary with the test of the book button inverted.
updateSummaryInvertedButton(selected, movieId) ==
    LET count == Len(selected)
        found == {k \in DOMAIN movies : movies[k].id = movieId}
        price == IF found # {} THEN movies[CHOOSE k \in found : \A j \in found : k <= j].price
                 ELSE 0
    IN  [seatCount |-> count, totalPrice |-> toFixed2(count * price), disabled |-> (count > 0)]

\* updateSummary: what it writes to seatCount, totalPrice and bookBtn.disabled.
updateSummary(selected, movieId) ==
    LET count == Len(selected)
        found == {k \in DOMAIN movies : movies[k].id = movieId}
        price == IF found # {} THEN movies[CHOOSE k \in found : \A j \in found : k <= j].price
                 ELSE 0
        total == count * price
    IN  [seatCount |-> count, totalPrice |-> toFixed2(total), disabled |-> (count = 0)]

(* --------------------------- seat click -------------------------------- *)

\* The listener's test without its check of the 'occupied' class.
clickableAnySeat(grid, k) ==
    /\ k \in DOMAIN grid
    /\ "seat" \in grid[k].classes

\* Whether the click target passes the listener's test: a seat, not occupied.
\* Target 0 is an element of the grid that is not a seat (a row, the grid).
clickable(grid, k) ==
    /\ k \in DOMAIN grid
    /\ "seat" \in grid[k].classes
    /\ "occupied" \notin grid[k].classes

\* The seat click listener pushing the index on every accepted click.
toggleSeatAlwaysPush(grid, selected, k) ==
    IF clickable(grid, k)
    THEN LET nowSelected == "selected" \notin grid[k].classes
             newClasses  == IF nowSelected THEN grid[k].classes \cup {"selected"}
                            ELSE grid[k].classes \ {"selected"}
         IN  [grid     |-> [grid EXCEPT ![k].classes = newClasses],
              selected |-> Append(selected, grid[k].seatIndex)]
    ELSE [grid |-> grid, selected |-> selected]

\* The seat click listener on target k: the grid and selectedSeats it leaves.
toggleSeat(grid, selected, k) ==
    IF clickable(grid, k)
    THEN LET nowSelected == "selected" \notin grid[k].classes
             newClasses  == IF nowSelected THEN grid[k].classes \cup {"selected"}
                            ELSE grid[k].classes \ {"selected"}
             seatIndex   == grid[k].seatIndex
         IN  [grid     |-> [grid EXCEPT ![k].classes = newClasses],
              selected |-> IF nowSelected THEN Append(selected, seatIndex)
                           ELSE filterOut(selected, seatIndex)]
    ELSE [grid |-> grid, selected |-> selected]

(* ------------------------------ book ----------------------------------- *)

\* querySelector(`[data-seat-index="${index}"]`) then remove 'selected', add 'occupied'.
occupySeat(grid, index) ==
    LET found == {k \in DOMAIN grid : grid[k].seatIndex = index}
    IN  IF found = {} THEN grid
        ELSE LET k == CHOOSE x \in found : \A y \in found : x <= y
             IN  [grid EXCEPT ![k].classes = (@ \ {"selected"}) \cup {"occupied"}]

\* selectedSeats.forEach(...)
RECURSIVE occupySeats(_, _)
occupySeats(grid, selected) ==
    IF selected = <<>> THEN grid
    ELSE occupySeats(occupySeat(grid, Head(selected)), Tail(selected))

\* A booking that appends the booked seats to the occupied array of every showtime.
bookedShowtimesEverywhere(sts, cur, selected) ==
    [id \in DOMAIN sts |-> [sts[id] EXCEPT !.occupied = @ \o selected]]

\* The occupied array of every showtime after a booking of selected for cur.
bookedShowtimes(sts, cur, selected) == sts

\* The object logged to the console.
bookingData(cur, selected, priceText) ==
    [showtimeId |-> cur, seats |-> selected, totalPrice |-> parseFloat(priceText)]

\* The console before anything is logged.
NoBooking == [showtimeId |-> Null, seats |-> <<>>, totalPrice |-> 0]

(* ------------------------------ state ---------------------------------- *)

\* event is the kind of the event handled last.

\* Initialization with populateSelectors leaving out updateShowtimeOptions:
\* showtimeSelect has no option and its empty value becomes the current showtime.
InitWithoutShowtimeOptions ==
    LET firstMovie == movies[1].id
        sel        == showtimeOptions(<<>>)
        summary    == updateSummary(<<>>, firstMovie)
    IN  /\ showtimes = showtimesData
        /\ movieSelect = firstMovie
        /\ showtimeSelect = sel
        /\ currentShowtimeId = sel.value
        /\ selectedSeats = <<>>
        /\ seatingGrid = renderSeatingGrid(showtimesData, sel.value, <<>>)
        /\ seatCount = summary.seatCount
        /\ totalPrice = summary.totalPrice
        /\ bookBtn = [disabled |-> summary.disabled]
        /\ console = NoBooking
        /\ event = "init"

\* populateSelectors(); renderSeatingGrid();
Init ==
    LET firstMovie == movies[1].id
        avail      == availableShowtimes(showtimesData, firstMovie)
        sel        == showtimeOptions(avail)
        summary    == updateSummary(<<>>, firstMovie)
    IN  /\ showtimes = showtimesData
        /\ movieSelect = firstMovie
        /\ showtimeSelect = sel
        /\ currentShowtimeId = sel.value
        /\ selectedSeats = <<>>
        /\ seatingGrid = renderSeatingGrid(showtimesData, sel.value, <<>>)
        /\ seatCount = summary.seatCount
        /\ totalPrice = summary.totalPrice
        /\ bookBtn = [disabled |-> summary.disabled]
        /\ console = NoBooking
        /\ event = "init"

\* movieSelect 'change' to the option of movie m: updateShowtimeOptions(m).
MovieChange(m) ==
    /\ m # movieSelect
    /\ LET avail   == availableShowtimes(showtimes, m)
           cur     == firstShowtime(avail)
           summary == updateSummary(<<>>, m)
       IN  /\ movieSelect' = m
           /\ showtimeSelect' = showtimeOptions(avail)
           /\ currentShowtimeId' = cur
           /\ selectedSeats' = <<>>
           /\ seatingGrid' = renderSeatingGrid(showtimes, cur, <<>>)
           /\ seatCount' = summary.seatCount
           /\ totalPrice' = summary.totalPrice
           /\ bookBtn' = [disabled |-> summary.disabled]
    /\ event' = "movie"
    /\ UNCHANGED <<showtimes, console>>

\* The showtime change listener without its reset of selectedSeats.
ShowtimeChangeKeepSelection(i) ==
    /\ i \in DOMAIN showtimeSelect.options
    /\ showtimeSelect.options[i] # showtimeSelect.value
    /\ LET cur     == showtimeSelect.options[i]
           summary == updateSummary(selectedSeats, movieSelect)
       IN  /\ showtimeSelect' = [showtimeSelect EXCEPT !.value = cur]
           /\ currentShowtimeId' = cur
           /\ seatingGrid' = renderSeatingGrid(showtimes, cur, selectedSeats)
           /\ seatCount' = summary.seatCount
           /\ totalPrice' = summary.totalPrice
           /\ bookBtn' = [disabled |-> summary.disabled]
    /\ event' = "showtime"
    /\ UNCHANGED <<showtimes, movieSelect, console, selectedSeats>>

\* showtimeSelect 'change' to its option number i.
ShowtimeChange(i) ==
    /\ i \in DOMAIN showtimeSelect.options
    /\ showtimeSelect.options[i] # showtimeSelect.value
    /\ LET cur     == showtimeSelect.options[i]
           summary == updateSummary(<<>>, movieSelect)
       IN  /\ showtimeSelect' = [showtimeSelect EXCEPT !.value = cur]
           /\ currentShowtimeId' = cur
           /\ selectedSeats' = <<>>
           /\ seatingGrid' = renderSeatingGrid(showtimes, cur, <<>>)
           /\ seatCount' = summary.seatCount
           /\ totalPrice' = summary.totalPrice
           /\ bookBtn' = [disabled |-> summary.disabled]
    /\ event' = "showtime"
    /\ UNCHANGED <<showtimes, movieSelect, console>>

\* seatingGrid 'click' on its seat element number k (0: not a seat).
SeatClick(k) ==
    LET r == toggleSeat(seatingGrid, selectedSeats, k)
    IN  /\ Len(r.selected) <= MaxSelected
        /\ seatingGrid' = r.grid
        /\ selectedSeats' = r.selected
        /\ IF clickable(seatingGrid, k)
           THEN LET summary == updateSummary(r.selected, movieSelect)
                IN  /\ seatCount' = summary.seatCount
                    /\ totalPrice' = summary.totalPrice
                    /\ bookBtn' = [disabled |-> summary.disabled]
           ELSE UNCHANGED <<seatCount, totalPrice, bookBtn>>
        /\ event' = "seat"
        /\ UNCHANGED <<showtimes, currentShowtimeId, movieSelect, showtimeSelect, console>>

\* The book listener without its test of selectedSeats.length.
BookClickNoGuard ==
    /\ console' = bookingData(currentShowtimeId, selectedSeats, totalPrice)
    /\ showtimes' = bookedShowtimes(showtimes, currentShowtimeId, selectedSeats)
    /\ seatingGrid' = occupySeats(seatingGrid, selectedSeats)
    /\ selectedSeats' = <<>>
    /\ LET summary == updateSummary(<<>>, movieSelect)
       IN  /\ seatCount' = summary.seatCount
           /\ totalPrice' = summary.totalPrice
           /\ bookBtn' = [disabled |-> summary.disabled]
    /\ event' = "book"
    /\ UNCHANGED <<currentShowtimeId, movieSelect, showtimeSelect>>

\* bookBtn 'click'.  The listener is run in any state: with an empty
\* selection its own test makes it do nothing.
BookClick ==
    /\ IF Len(selectedSeats) > 0
       THEN /\ console' = bookingData(currentShowtimeId, selectedSeats, totalPrice)
            /\ showtimes' = bookedShowtimes(showtimes, currentShowtimeId, selectedSeats)
            /\ seatingGrid' = occupySeats(seatingGrid, selectedSeats)
            /\ selectedSeats' = <<>>
            /\ LET summary == updateSummary(<<>>, movieSelect)
               IN  /\ seatCount' = summary.seatCount
                   /\ totalPrice' = summary.totalPrice
                   /\ bookBtn' = [disabled |-> summary.disabled]
       ELSE UNCHANGED <<console, showtimes, seatingGrid, selectedSeats,
                        seatCount, totalPrice, bookBtn>>
    /\ event' = "book"
    /\ UNCHANGED <<currentShowtimeId, movieSelect, showtimeSelect>>

Next ==
    \/ \E m \in {movies[k].id : k \in DOMAIN movies} : MovieChange(m)
    \/ \E i \in 1..Len(showtimeKeys) : ShowtimeChange(i)
    \/ \E k \in 0..MaxClickSeat : SeatClick(k)
    \/ BookClick

Spec == Init /\ [][Next]_vars

(* ------------------------- properties ---------------------------------- *)

Range(arr) == {arr[k] : k \in DOMAIN arr}

\* The number of seats of the hall.
SeatTotal == Len(SEAT_LAYOUT.rows) * SEAT_LAYOUT.seatsPerRow

hasShowtime == currentShowtimeId \notin {Null, EmptyValue}

\* The occupied array of the current showtime, as a set.
currentOccupied == IF hasShowtime THEN Range(showtimes[currentShowtimeId].occupied) ELSE {}

\* The seat elements of the grid that carry seat index s.
elementsOf(s) == {k \in DOMAIN seatingGrid : seatingGrid[k].seatIndex = s}

\* The price of the movie whose option is selected in movieSelect.
selectedMoviePrice ==
    LET found == {k \in DOMAIN movies : movies[k].id = movieSelect}
    IN  IF found = {} THEN 0 ELSE movies[CHOOSE k \in found : TRUE].price

\* C1: every selected seat index lies in 1..32 and is not occupied for the
\* current showtime, neither in the showtime's occupied array nor in the
\* grid: no seat is both selected and occupied.
C1_SelectedSeatsValid ==
    \A s \in Range(selectedSeats) :
        /\ s \in 1..SeatTotal
        /\ hasShowtime
        /\ s \notin currentOccupied
        /\ \A k \in elementsOf(s) : "occupied" \notin seatingGrid[k].classes

\* C1 witness: two seats are selected next to seats occupied in the catalog
\* and a seat occupied by a booking.
C1_Witness ==
    /\ event = "seat"
    /\ Len(selectedSeats) = 2
    /\ console.showtimeId = currentShowtimeId
    /\ \E k \in DOMAIN seatingGrid :
          /\ "occupied" \in seatingGrid[k].classes
          /\ seatingGrid[k].seatIndex \notin currentOccupied

\* C2: a book click with a non-empty selection S on showtime T leaves the
\* selection empty and T's occupied set equal to its previous occupied set
\* united with exactly S.
C2_BookOccupiesSelection ==
    [][(event' = "book" /\ Len(selectedSeats) > 0) =>
          /\ selectedSeats' = <<>>
          /\ currentShowtimeId' = currentShowtimeId
          /\ Range(showtimes'[currentShowtimeId].occupied)
                = Range(showtimes[currentShowtimeId].occupied) \cup Range(selectedSeats)
      ]_vars

\* C3: once a seat has been booked for a showtime, it cannot be selected
\* again for that showtime: while the showtime of the booking submitted last
\* is current, none of that booking's seats is in the selection.
C3_BookedSeatNotSelectedAgain ==
    console.showtimeId = currentShowtimeId =>
        Range(console.seats) \cap Range(selectedSeats) = {}

\* C4: after any movie change and any showtime change the selection is empty
\* and the summary shows count 0.
C4_ChangeClearsSelection ==
    [][event' \in {"movie", "showtime"} => (selectedSeats' = <<>> /\ seatCount' = 0)]_vars

\* C4 witness: the showtime was changed to the second showtime of the first
\* movie after a booking, and nothing is selected.
C4_Witness ==
    /\ event = "showtime"
    /\ currentShowtimeId = "1_1PM"
    /\ console # NoBooking
    /\ selectedSeats = <<>>
    /\ seatCount = 0

\* C5: the displayed total is the number of selected seats times the price of
\* the selected movie, and the displayed count is the number of selected seats.
C5_SummaryNeverStale ==
    /\ seatCount = Len(selectedSeats)
    /\ parseFloat(totalPrice) = Len(selectedSeats) * selectedMoviePrice
    /\ totalPrice.frac \in 0..99

\* C5 witness: two seats of the 12.50 movie are selected, the total shows 25.00.
C5_Witness ==
    /\ event = "seat"
    /\ movieSelect = 2
    /\ Len(selectedSeats) = 2
    /\ totalPrice = [whole |-> 25, frac |-> 0]

\* The selection after two clicks in a row on seat element k.
toggledTwice(k) ==
    LET once == toggleSeat(seatingGrid, selectedSeats, k)
    IN  toggleSeat(once.grid, once.selected, k)

notOccupiedSeats == {k \in DOMAIN seatingGrid : seatingGrid[k].seatIndex \notin currentOccupied}

\* C6 as stated: toggling a seat that is not occupied for the current showtime
\* twice in a row returns the ordered selection to exactly its prior state,
\* whether the seat was selected before or not.
C6_ToggleTwiceSameOrder ==
    \A k \in notOccupiedSeats : toggledTwice(k).selected = selectedSeats

\* C6 amended: toggling such a seat twice in a row returns the selection to
\* the same set of seats and the grid to the same classes; the order is
\* restored when the seat was not selected before, and a seat that was
\* selected before ends up last in the selection.
C6_ToggleTwiceSameSet ==
    \A k \in notOccupiedSeats :
        LET s == seatingGrid[k].seatIndex
            r == toggledTwice(k)
        IN  /\ Range(r.selected) = Range(selectedSeats)
            /\ Len(r.selected) = Len(selectedSeats)
            /\ r.grid = seatingGrid
            /\ ~includes(selectedSeats, s) => r.selected = selectedSeats
            /\ (includes(selectedSeats, s) /\ clickable(seatingGrid, k))
                  => r.selected = Append(filterOut(selectedSeats, s), s)

\* C6 witness: after a seat click two seats are selected, and toggling the
\* first of them twice moves it behind the other.
C6_Witness ==
    /\ event = "seat"
    /\ Len(selectedSeats) = 2
    /\ \E k \in notOccupiedSeats :
          /\ seatingGrid[k].seatIndex = selectedSeats[1]
          /\ toggledTwice(k).selected = <<selectedSeats[2], selectedSeats[1]>>

\* C7: a click on a seat occupied for the current showtime changes nothing;
\* a click on a seat that is not occupied flips that seat's membership in the
\* selection and the membership of no other seat.
C7_ToggleSeat ==
    [][\A k \in 1..MaxClickSeat :
          (SeatClick(k) /\ k \in DOMAIN seatingGrid) =>
              LET s == seatingGrid[k].seatIndex
              IN  IF s \in currentOccupied
                  THEN UNCHANGED <<selectedSeats, showtimes, currentShowtimeId,
                                   seatCount, totalPrice, bookBtn>>
                  ELSE /\ includes(selectedSeats', s) # includes(selectedSeats, s)
                       /\ \A o \in (1..SeatTotal) \ {s} :
                             includes(selectedSeats', o) = includes(selectedSeats, o)
      ]_vars

\* C8: a book click with an empty selection changes nothing: the occupied
\* sets, the selection, the current showtime, the grid and the summary stay,
\* and no booking is submitted.
C8_BookEmptyIsNoOp ==
    [][(event' = "book" /\ selectedSeats = <<>>) =>
          UNCHANGED <<showtimes, selectedSeats, currentShowtimeId, movieSelect,
                      showtimeSelect, seatingGrid, seatCount, totalPrice,
                      bookBtn, console>>
      ]_vars

\* C8 witness: the book listener ran with nothing selected and nothing was
\* ever submitted.
C8_Witness ==
    /\ event = "book"
    /\ selectedSeats = <<>>
    /\ console = NoBooking
    /\ bookBtn.disabled

\* C9: with the 10.00 movie selected and nothing selected, toggling seat 3 and
\* then seat 7 gives count 2, total 20.00 and an enabled booking; the booking
\* that follows adds seats 3 and 7 to the current showtime's occupied set and
\* leaves the selection empty.
C9_Example ==
    (selectedMoviePrice = 1000 /\ selectedSeats = <<>> /\ hasShowtime) =>
        LET first   == toggleSeat(seatingGrid, selectedSeats, 3)
            second  == toggleSeat(first.grid, first.selected, 7)
            summary == updateSummary(second.selected, movieSelect)
            booked  == bookedShowtimes(showtimes, currentShowtimeId, second.selected)
        IN  /\ summary.seatCount = 2
            /\ summary.totalPrice = [whole |-> 20, frac |-> 0]
            /\ ~summary.disabled
            /\ {3, 7} \subseteq Range(booked[currentShowtimeId].occupied)

\* C10: the state every seat shows in the grid is the one a full render from
\* the current showtime's occupied set and the selection produces: selected
\* iff in the selection, occupied iff in the occupied set, never both.
C10_GridIsRender ==
    hasShowtime =>
        /\ seatingGrid = renderSeatingGrid(showtimes, currentShowtimeId, selectedSeats)
        /\ \A k \in DOMAIN seatingGrid :
              LET s == seatingGrid[k].seatIndex
                  c == seatingGrid[k].classes
              IN  /\ ("selected" \in c) = includes(selectedSeats, s)
                  /\ ("occupied" \in c) = (s \in currentOccupied)
                  /\ ~("selected" \in c /\ "occupied" \in c)

\* C11: the booking is enabled (the book button is not disabled) iff the
\* selection is not empty.
C11_BookableIffSelected ==
    (~bookBtn.disabled) = (Len(selectedSeats) > 0)

\* C11 witness: a seat click left a seat selected and the button enabled.
C11_Witness ==
    /\ event = "seat"
    /\ Len(selectedSeats) = 1
    /\ ~bookBtn.disabled

\* The first key, in catalog order, of a showtime of movie m; Null if none.
catalogFirstShowtime(m) ==
    LET idx == {k \in DOMAIN showtimeKeys : showtimes[showtimeKeys[k]].movieId = m}
    IN  IF idx = {} THEN Null
        ELSE showtimeKeys[CHOOSE k \in idx : \A j \in idx : k <= j]

\* Movie ids given to updateShowtimeOptions: the catalog's and one on each side.
movieIdInputs == 0..(Len(movies) + 1)

\* C12: a movie change to m makes the first showtime, in catalog order, whose
\* movieId is m the current one; for an id no showtime has,
\* updateShowtimeOptions leaves the current showtime null and a grid in which
\* no click selects a seat.
C12_SelectMovie ==
    /\ [][event' = "movie" =>
             /\ currentShowtimeId' = catalogFirstShowtime(movieSelect')
             /\ currentShowtimeId' # Null]_vars
    /\ [](\A m \in movieIdInputs :
             LET cur  == firstShowtime(availableShowtimes(showtimes, m))
                 grid == renderSeatingGrid(showtimes, cur, <<>>)
             IN  /\ cur = catalogFirstShowtime(m)
                 /\ catalogFirstShowtime(m) = Null =>
                       /\ m \notin {movies[k].id : k \in DOMAIN movies}
                       /\ \A k \in 0..SeatTotal :
                             toggleSeat(grid, <<>>, k).selected = <<>>)

\* C12 witness: the movie was changed back to the first movie, which has two
\* showtimes, and its 10 AM showtime is current.
C12_Witness ==
    /\ event = "movie"
    /\ movieSelect = 1
    /\ currentShowtimeId = "1_10AM"
    /\ showtimeSelect.options = <<"1_10AM", "1_1PM">>

\* The seat indices whose element carries class 'occupied' in grid g.
shownOccupied(g) == {g[k].seatIndex : k \in {j \in DOMAIN g : "occupied" \in g[j].classes}}

\* C13: a book click leaves the occupied set of every showtime other than the
\* current one unchanged; seat clicks, movie changes and showtime changes
\* change no showtime's occupied set, and a seat click changes no seat's
\* 'occupied' class either.
C13_OccupancyFrame ==
    [][/\ event' = "book" =>
             \A id \in DOMAIN showtimes :
                 id # currentShowtimeId =>
                     /\ id \in DOMAIN showtimes'
                     /\ showtimes'[id].occupied = showtimes[id].occupied
       /\ event' \in {"seat", "movie", "showtime"} => showtimes' = showtimes
       /\ event' = "seat" => shownOccupied(seatingGrid') = shownOccupied(seatingGrid)
      ]_vars

\* C13 witness: a booking of two seats was submitted for the current showtime
\* and the catalog's other showtimes are as they were.
C13_Witness ==
    /\ event = "book"
    /\ console.showtimeId = currentShowtimeId
    /\ Len(console.seats) = 2
    /\ \A id \in DOMAIN showtimes :
          id # currentShowtimeId => showtimes[id] = showtimesData[id]

\* The price of the movie with id m in the catalog, 0 if there is none.
catalogPrice(m) ==
    LET found == {k \in DOMAIN movies : movies[k].id = m}
    IN  IF found = {} THEN 0 ELSE movies[CHOOSE k \in found : TRUE].price

\* C14: the current showtime, when there is one, is a showtime of the movie
\* selected in movieSelect, as is every option of showtimeSelect, so the
\* total shown is computed with the price of the movie screened at the
\* current showtime.
C14_ShowtimeOfSelectedMovie ==
    hasShowtime =>
        /\ currentShowtimeId \in DOMAIN showtimes
        /\ showtimes[currentShowtimeId].movieId = movieSelect
        /\ currentShowtimeId = showtimeSelect.value
        /\ \A i \in DOMAIN showtimeSelect.options :
              showtimes[showtimeSelect.options[i]].movieId = movieSelect
        /\ parseFloat(totalPrice)
              = seatCount * catalogPrice(showtimes[currentShowtimeId].movieId)

\* C14 witness: a seat of the 7 PM showtime of the third movie is selected
\* and the total shows that movie's price.
C14_Witness ==
    /\ event = "seat"
    /\ movieSelect = 3
    /\ currentShowtimeId = "3_7PM"
    /\ Len(selectedSeats) = 1
    /\ totalPrice = [whole |-> 10, frac |-> 0]

\* The seat elements of the grid that do not carry class 'occupied'.
shownFree == {k \in DOMAIN seatingGrid : "occupied" \notin seatingGrid[k].classes}

\* C15: the selection holds no seat index twice, so the count shown is the
\* number of distinct selected seats and exceeds neither the number of seats
\* outside the current showtime's occupied set nor the number of seats the
\* grid shows as not occupied.
C15_NoDuplicateSelection ==
    /\ \A i, j \in DOMAIN selectedSeats : i # j => selectedSeats[i] # selectedSeats[j]
    /\ seatCount = Cardinality(Range(selectedSeats))
    /\ Range(selectedSeats) \subseteq (1..SeatTotal) \ currentOccupied
    /\ seatCount <= SeatTotal - Cardinality(currentOccupied)
    /\ Range(selectedSeats) \subseteq {seatingGrid[k].seatIndex : k \in shownFree}
    /\ seatCount <= Cardinality(shownFree)

\* C15 witness: two distinct seats are selected and counted, held in the
\* order of the clicks, the higher index first.
C15_Witness ==
    /\ event = "seat"
    /\ seatCount = 2
    /\ Len(selectedSeats) = 2
    /\ selectedSeats[1] > selectedSeats[2]

\* C16: every booking that is submitted carries the showtime current at the
\* click, the seats selected at the click in the order of their selection and
\* a total of that many seats times the selected movie's price; none of its
\* seats is occupied for that showtime at the click, in the showtime's
\* occupied array or in the grid; and nothing else is ever logged.
C16_SubmittedBooking ==
    [][/\ (event' = "book" /\ Len(selectedSeats) > 0) =>
             /\ console'.showtimeId = currentShowtimeId
             /\ console'.seats = selectedSeats
             /\ console'.totalPrice = Len(selectedSeats) * selectedMoviePrice
             /\ Range(console'.seats) \cap currentOccupied = {}
             /\ Range(console'.seats) \cap shownOccupied(seatingGrid) = {}
       /\ console' # console => (event' = "book" /\ Len(selectedSeats) > 0)
      ]_vars

\* C16 witness: a booking of two seats of the 12.50 movie was submitted with
\* total 25.00, the seats in the order they were clicked.
C16_Witness ==
    /\ event = "book"
    /\ console.showtimeId = "2_11AM"
    /\ Len(console.seats) = 2
    /\ console.seats[1] > console.seats[2]
    /\ console.totalPrice = 2500

\* C17: after initialization the first movie of the catalog is selected, its
\* first showtime '1_10AM' is current, nothing is selected, the summary shows
\* count 0 and total 0.00, the booking is disabled, and the grid shows as
\* occupied exactly the seats the catalog lists for that showtime.
C17_InitialState ==
    event = "init" =>
        /\ movieSelect = movies[1].id
        /\ currentShowtimeId = "1_10AM"
        /\ currentShowtimeId = catalogFirstShowtime(movies[1].id)
        /\ showtimeSelect = [options |-> <<"1_10AM", "1_1PM">>, value |-> "1_10AM"]
        /\ selectedSeats = <<>>
        /\ seatCount = 0
        /\ totalPrice = [whole |-> 0, frac |-> 0]
        /\ bookBtn.disabled
        /\ console = NoBooking
        /\ showtimes = showtimesData
        /\ Len(seatingGrid) = SeatTotal
        /\ shownOccupied(seatingGrid) = {1, 2, 9, 10, 11, 25, 26}
        /\ \A k \in DOMAIN seatingGrid : "selected" \notin seatingGrid[k].classes

\* C17 witness: the state right after initialization, seat A1 occupied and
\* seat A3 free.
C17_Witness ==
    /\ event = "init"
    /\ currentShowtimeId = "1_10AM"
    /\ seatingGrid[1].classes = {"seat", "occupied"}
    /\ seatingGrid[3].classes = {"seat"}

\* The number 0..3 of the row with the given letter.
rowNumber(letter) ==
    (CHOOSE r \in DOMAIN SEAT_LAYOUT.rows : SEAT_LAYOUT.rows[r] = letter) - 1

\* The seat elements of grid g placed at position i of the row with number r.
seatsAt(g, r, i) == {k \in DOMAIN g : g[k].title = <<SEAT_LAYOUT.rows[r + 1], i>>}

\* C18: in every grid that is rendered the seat at position i (1..8) of row
\* number r (0..3) has index 8*r + i, every index 1..32 belongs to exactly
\* one seat and every position holds exactly one seat; the assignment is
\* that of the first render.
C18_RowMajorIndices ==
    hasShowtime =>
        /\ Len(seatingGrid) = SeatTotal
        /\ \A r \in 0..(Len(SEAT_LAYOUT.rows) - 1) :
              \A i \in 1..SEAT_LAYOUT.seatsPerRow :
                  /\ Cardinality(seatsAt(seatingGrid, r, i)) = 1
                  /\ \A k \in seatsAt(seatingGrid, r, i) :
                        seatingGrid[k].seatIndex = 8 * r + i
        /\ \A s \in 1..32 : Cardinality(elementsOf(s)) = 1
        /\ LET first == renderSeatingGrid(showtimesData, "1_10AM", <<>>)
           IN  \A k \in DOMAIN seatingGrid :
                  /\ seatingGrid[k].seatIndex = first[k].seatIndex
                  /\ seatingGrid[k].title = first[k].title
                  /\ rowNumber(seatingGrid[k].title[1]) \in 0..3
                  /\ seatingGrid[k].title[2] \in 1..8

\* C18 witness: after a showtime change rendered the grid anew, the first seat
\* of row B has index 9 and the last seat of row D has index 32.
C18_Witness ==
    /\ event = "showtime"
    /\ \E k \in DOMAIN seatingGrid :
          seatingGrid[k].title = <<"B", 1>> /\ seatingGrid[k].seatIndex = 9
    /\ \E k \in DOMAIN seatingGrid :
          seatingGrid[k].title = <<"D", 8>> /\ seatingGrid[k].seatIndex = 32

====
